---- MODULE Spec2Model ----
(***************************************************************************)
(* GeoSnap: EXIF GPS extraction and export, as implemented twice:          *)
(*   desktop  src/main.py           (PyQt window, GeoSnapExtractor)        *)
(*   web      src/streamlit_app.py  (Streamlit script)                     *)
(*                                                                         *)
(* Numbers.  Python floats are modelled as exact rationals in fixed point: *)
(* a value v stands for v / Scale degrees.  Every division the model       *)
(* performs is exact for the components the catalogs below contain.        *)
(* Text.  A Python str is a tuple of one-character strings.                *)
(* Dicts.  A Python dict is a function whose DOMAIN is its key set.        *)
(***************************************************************************)
EXTENDS Integers, Sequences, FiniteSets, TLC

VARIABLES
    app,          \* which of the two programs runs: "desktop" or "web"
    batch,        \* os.listdir(folder_path) / uploaded_files: sequence of items
    formats,      \* checked export check boxes / export_formats multiselect
    coordinates,  \* self.coordinates / st.session_state.coordinates
    pc,           \* position of the handler that is running
    i,            \* 1-based position of the loop in batch
    opened,       \* positions of batch handed to Image.open since the latest
                  \* extraction started, in call order
    messages,     \* QMessageBox / st.warning / st.error / status texts of the
                  \* current request, in order
    progress,     \* web progress bar value <<numerator, denominator>>
    outputs,      \* files written to export_dir / payload offered for download
    sercalls,     \* serializers called by the current request, in call order
    paths,        \* desktop: which of folder_path, output_folder_path are set
    conv_in,      \* exif_data handed to get_coordinates (conversion specification)
    conv_out,     \* what that call of get_coordinates produced
    failing       \* formats whose serializer raises (say, destination not writable)

vars == <<app, batch, formats, coordinates, pc, i, opened, messages, progress,
          outputs, sercalls, paths, conv_in, conv_out, failing>>

Apps == {"desktop", "web"}

(***************************************************************************)
(* Text                                                                    *)
(***************************************************************************)
UpperLetters == <<"A","B","C","D","E","F","G","H","I","J","K","L","M",
                  "N","O","P","Q","R","S","T","U","V","W","X","Y","Z">>
LowerLetters == <<"a","b","c","d","e","f","g","h","i","j","k","l","m",
                  "n","o","p","q","r","s","t","u","v","w","x","y","z">>

\* str.lower(), one character
LowerChar(c) ==
    IF \E k \in DOMAIN UpperLetters : UpperLetters[k] = c
    THEN LowerLetters[CHOOSE k \in DOMAIN UpperLetters : UpperLetters[k] = c]
    ELSE c

\* str.lower()
Lower(s) == [k \in DOMAIN s |-> LowerChar(s[k])]

\* str.endswith(suffix)
EndsWith(s, suffix) ==
    /\ Len(suffix) <= Len(s)
    /\ SubSeq(s, Len(s) - Len(suffix) + 1, Len(s)) = suffix

\* str.endswith(tuple of suffixes)
EndsWithAny(s, suffixes) == \E suf \in suffixes : EndsWith(s, suf)

\* the argument of endswith in main.py: ('jpg', 'jpeg', 'png')
D_Suffixes == { <<"j","p","g">>, <<"j","p","e","g">>, <<"p","n","g">> }

\* the argument of endswith in streamlit_app.py: ('.jpg', '.jpeg', '.png')
W_Suffixes == { <<".","j","p","g">>, <<".","j","p","e","g">>, <<".","p","n","g">> }

\* main.py: filename.lower().endswith(('jpg', 'jpeg', 'png'))
D_PassesFilter(name) == EndsWithAny(Lower(name), D_Suffixes)

\* streamlit_app.py: the negation of the `continue` condition
W_PassesFilter(name) == EndsWithAny(Lower(name), W_Suffixes)

(***************************************************************************)
(* Numbers and GPS components                                              *)
(***************************************************************************)
\* units per degree: 3600 for the seconds, 2 for the denominators in use
Scale == 3600 * 2

\* A component of a GPS magnitude, as Python sees it:
\*   "num"    something float() accepts (int, float, IFDRational), value n
\*   "pair"   the tuple (n, d)
\*   "tuple1" the one-element tuple (n,)
\*   "str"    a non-numeric string of at least two characters
Num(n)     == [k |-> "num", n |-> n, d |-> 1]
Pair(n, d) == [k |-> "pair", n |-> n, d |-> d]
Tuple1(n)  == [k |-> "tuple1", n |-> n, d |-> 0]
Str        == [k |-> "str", n |-> 0, d |-> 0]

\* outcome of a Python call: a value or a raised exception
Ok(v)      == [ok |-> TRUE, v |-> v, exc |-> "", warn |-> <<>>]
Raise(e)   == [ok |-> FALSE, v |-> 0, exc |-> e, warn |-> <<>>]
RaiseW(e, w) == [ok |-> FALSE, v |-> 0, exc |-> e, warn |-> w]

\* main.py to_float: float(r), and on TypeError/ValueError r[0] / r[1]
D_to_float(r) ==
    CASE r.k = "num"    -> Ok(r.n * Scale)
      [] r.k = "pair"   -> IF r.d = 0 THEN Raise("ZeroDivisionError")
                           ELSE Ok((r.n * Scale) \div r.d)
      [] r.k = "tuple1" -> Raise("IndexError")
      [] OTHER          -> Raise("TypeError")

\* streamlit_app.py to_float: float(r), and on TypeError/ValueError the
\* validated division, else st.warning and ValueError
W_to_float(r) ==
    CASE r.k = "num"                -> Ok(r.n * Scale)
      [] r.k = "pair" /\ r.d # 0    -> Ok((r.n * Scale) \div r.d)
      [] OTHER -> RaiseW("ValueError", <<"Could not convert GPS coordinate component to float">>)

\* DegMinSec with the seconds divided by 60 instead of 3600
DegMinSec_SecondsAsMinutes(d, m, s) == d + (m \div 60) + (s \div 60)

\* the return expression of convert_to_degrees: d + (m / 60.0) + (s / 3600.0)
DegMinSec(d, m, s) == d + (m \div 60) + (s \div 3600)

\* the body of convert_to_degrees on rs, the outcomes of to_float for the
\* elements of value: value[0], value[1], value[2] converted in order, then
\* the sum; an exception of to_float or of the indexing leaves the function
DegreesOf(rs) ==
    IF Len(rs) < 1 THEN Raise("IndexError") ELSE
    IF ~rs[1].ok THEN rs[1] ELSE
    IF Len(rs) < 2 THEN Raise("IndexError") ELSE
    IF ~rs[2].ok THEN rs[2] ELSE
    IF Len(rs) < 3 THEN Raise("IndexError") ELSE
    IF ~rs[3].ok THEN rs[3] ELSE
    Ok(DegMinSec(rs[1].v, rs[2].v, rs[3].v))

\* main.py convert_to_degrees
D_convert_to_degrees(value) == DegreesOf([k \in DOMAIN value |-> D_to_float(value[k])])

\* streamlit_app.py convert_to_degrees
W_convert_to_degrees(value) == DegreesOf([k \in DOMAIN value |-> W_to_float(value[k])])

(***************************************************************************)
(* get_coordinates                                                         *)
(***************************************************************************)
\* dict.get(key) followed by a truth test: the key is present and its value
\* is neither None nor empty
Truthy(dict, key) == key \in DOMAIN dict /\ dict[key] # <<>>

\* what get_coordinates produced: None, the pair (latitude, longitude), or an
\* exception that left the function; warn lists the st.warning texts emitted
RetNone(w)       == [tag |-> "None", lat |-> 0, lon |-> 0, exc |-> "", warn |-> w]
RetCoords(la, lo) == [tag |-> "coords", lat |-> la, lon |-> lo, exc |-> "", warn |-> <<>>]
RetRaise(e)      == [tag |-> "raise", lat |-> 0, lon |-> 0, exc |-> e, warn |-> <<>>]

GpsKeys == {"GPSLatitude", "GPSLatitudeRef", "GPSLongitude", "GPSLongitudeRef"}

\* D_get_coordinates with the latitude negated for 'N' instead of for the rest
D_get_coordinates_NorthNegated(exif_data) ==
    IF ~Truthy(exif_data, "GPSInfo") THEN RetNone(<<>>) ELSE
    LET gps == exif_data["GPSInfo"] IN
    IF \A key \in GpsKeys : Truthy(gps, key)
    THEN LET la == D_convert_to_degrees(gps["GPSLatitude"]) IN
         IF ~la.ok THEN RetRaise(la.exc) ELSE
         LET latitude == IF gps["GPSLatitudeRef"] = <<"N">> THEN -la.v ELSE la.v
             lo == D_convert_to_degrees(gps["GPSLongitude"]) IN
         IF ~lo.ok THEN RetRaise(lo.exc) ELSE
         LET longitude == IF gps["GPSLongitudeRef"] # <<"E">> THEN -lo.v ELSE lo.v IN
         RetCoords(latitude, longitude)
    ELSE RetNone(<<>>)

\* main.py get_coordinates
D_get_coordinates(exif_data) ==
    IF ~Truthy(exif_data, "GPSInfo") THEN RetNone(<<>>) ELSE
    LET gps == exif_data["GPSInfo"] IN
    IF \A key \in GpsKeys : Truthy(gps, key)
    THEN LET la == D_convert_to_degrees(gps["GPSLatitude"]) IN
         IF ~la.ok THEN RetRaise(la.exc) ELSE
         LET latitude == IF gps["GPSLatitudeRef"] # <<"N">> THEN -la.v ELSE la.v
             lo == D_convert_to_degrees(gps["GPSLongitude"]) IN
         IF ~lo.ok THEN RetRaise(lo.exc) ELSE
         LET longitude == IF gps["GPSLongitudeRef"] # <<"E">> THEN -lo.v ELSE lo.v IN
         RetCoords(latitude, longitude)
    ELSE RetNone(<<>>)

\* the two except clauses of streamlit_app.py get_coordinates
W_except(r) ==
    IF r.exc = "ValueError"
    THEN RetNone(r.warn \o <<"Could not parse GPS coordinates">>)
    ELSE RetNone(r.warn \o <<"An unexpected error occurred during coordinate conversion">>)

\* streamlit_app.py get_coordinates
W_get_coordinates(exif_data) ==
    IF DOMAIN exif_data = {} THEN RetNone(<<>>) ELSE
    IF ~Truthy(exif_data, "GPSInfo") THEN RetNone(<<>>) ELSE
    LET gps == exif_data["GPSInfo"] IN
    IF \A key \in GpsKeys : Truthy(gps, key)
    THEN LET la == W_convert_to_degrees(gps["GPSLatitude"]) IN
         IF ~la.ok THEN W_except(la) ELSE
         LET latitude == IF gps["GPSLatitudeRef"] # <<"N">> THEN -la.v ELSE la.v
             lo == W_convert_to_degrees(gps["GPSLongitude"]) IN
         IF ~lo.ok THEN W_except(lo) ELSE
         LET longitude == IF gps["GPSLongitudeRef"] # <<"E">> THEN -lo.v ELSE lo.v IN
         RetCoords(latitude, longitude)
    ELSE RetNone(<<>>)

(***************************************************************************)
(* Inputs of the conversion specification                                  *)
(***************************************************************************)
\* degrees: the spec's two examples, a value beyond 180, a negative value,
\* a zero denominator and a plain number
DegComps == { Pair(10, 1), Pair(20, 1), Pair(181, 1), Pair(-3, 2), Pair(1, 0), Num(1) }

\* minutes: quarter and half degrees, a value beyond 60, a one-element tuple
MinComps == { Pair(30, 1), Pair(15, 1), Pair(61, 1), Tuple1(30) }

\* seconds: zero, 4.5 seconds, a string
SecComps == { Pair(0, 1), Pair(9, 2), Str }

\* magnitudes (degrees, minutes, seconds)
Triples == { <<dg, mi, se>> : dg \in DegComps, mi \in MinComps, se \in SecComps }

\* hemisphere flags the Reader can deliver; "X" is a value outside the standard
LatRefs == { <<"N">>, <<"S">>, <<"X">> }
LonRefs == { <<"E">>, <<"W">>, <<"X">> }

\* a GPSInfo dict with the four keys
Block(lat, lat_ref, lon, lon_ref) ==
    [key \in GpsKeys |->
        CASE key = "GPSLatitude"     -> lat
          [] key = "GPSLatitudeRef"  -> lat_ref
          [] key = "GPSLongitude"    -> lon
          [] OTHER                   -> lon_ref]

\* a dict without some of its keys
Without(dict, keys) == [key \in DOMAIN dict \ keys |-> dict[key]]

\* GPSInfo dicts: complete ones, and ones with one hemisphere flag missing
ConvBlocks(triples) ==
    LET full == { Block(la, lr, lo, nr) :
                    la \in triples, lr \in LatRefs, lo \in triples, nr \in LonRefs }
        base == { Block(la, <<"N">>, lo, <<"E">>) : la \in triples, lo \in triples }
    IN  full \cup { Without(b, {"GPSLatitudeRef"}) : b \in base }
             \cup { Without(b, {"GPSLongitudeRef"}) : b \in base }

\* get_exif_data's dict for an image whose EXIF holds the GPS block gps
ExifWith(gps) == [key \in {"GPSInfo", "Make"} |-> IF key = "GPSInfo" THEN gps ELSE <<"D","J","I">>]

\* exif_data dicts handed to get_coordinates
ConvInputs(triples) == { ExifWith(b) : b \in ConvBlocks(triples) }

\* nothing written, nothing offered for download
NoOutputs == [kind |-> "none", files |-> <<>>]

\* conv_out before the call
NotCalled == [tag |-> "notcalled", lat |-> 0, lon |-> 0, exc |-> "", warn |-> <<>>]

\* values of the batch variables while only the conversion is exercised
BatchIdle ==
    /\ batch = <<>> /\ formats = {} /\ coordinates = <<>> /\ pc = "conv"
    /\ i = 0 /\ opened = <<>> /\ messages = <<>> /\ progress = <<0, 1>>
    /\ outputs = NoOutputs /\ sercalls = <<>> /\ paths = {} /\ failing = {}

batchvars == <<batch, formats, coordinates, pc, i, opened, messages, progress,
               outputs, sercalls, paths, failing>>

ConvInit ==
    /\ app \in Apps
    /\ conv_in \in ConvInputs(Triples)
    /\ conv_out = NotCalled
    /\ BatchIdle

\* a call of main.py get_coordinates
D_CallGetCoordinates ==
    /\ pc = "conv" /\ app = "desktop" /\ conv_out = NotCalled
    /\ conv_out' = D_get_coordinates(conv_in)
    /\ UNCHANGED <<app, conv_in, batchvars>>

\* a call of streamlit_app.py get_coordinates
W_CallGetCoordinates ==
    /\ pc = "conv" /\ app = "web" /\ conv_out = NotCalled
    /\ conv_out' = W_get_coordinates(conv_in)
    /\ UNCHANGED <<app, conv_in, batchvars>>

ConvNext == D_CallGetCoordinates \/ W_CallGetCoordinates

SpecConv == ConvInit /\ [][ConvNext]_vars

(***************************************************************************)
(* Metadata Reader                                                         *)
(***************************************************************************)
\* PIL.ExifTags.TAGS, the entries the inputs use (tag code -> name)
TAGS == [t \in {271, 34853} |-> IF t = 271 THEN "Make" ELSE "GPSInfo"]

\* PIL.ExifTags.GPSTAGS, the entries the inputs use
GPSTAGS == [t \in {1, 2, 3, 4} |->
              CASE t = 1 -> "GPSLatitudeRef"
                [] t = 2 -> "GPSLatitude"
                [] t = 3 -> "GPSLongitudeRef"
                [] OTHER -> "GPSLongitude"]

\* table.get(tag, tag)
TagName(table, t) == IF t \in DOMAIN table THEN table[t] ELSE t

\* the loops of get_exif_data: every key replaced by its name
Decoded(info, table) ==
    [name \in { TagName(table, t) : t \in DOMAIN info } |->
        info[CHOOSE t \in DOMAIN info : TagName(table, t) = name]]

\* the body of get_exif_data after Image.open: image._getexif() or {} decoded,
\* the GPS sub-dict nested under 'GPSInfo'
ExifDict(info) ==
    LET top == Decoded(info, TAGS) IN
    [name \in DOMAIN top |->
        IF name = "GPSInfo" THEN Decoded(top[name], GPSTAGS) ELSE top[name]]

\* main.py get_exif_data: Image.open raises on bytes that are no image
D_get_exif_data(content) ==
    IF ~content.decodable THEN Raise("UnidentifiedImageError")
    ELSE Ok(ExifDict(content.info))

\* streamlit_app.py get_exif_data: any exception becomes st.error and None;
\* ok = FALSE stands for the returned None
W_get_exif_data(content) ==
    IF ~content.decodable THEN RaiseW("", <<"Error reading EXIF data">>)
    ELSE Ok(ExifDict(content.info))

(***************************************************************************)
(* Files of the batch specification                                        *)
(***************************************************************************)
Whole(n) == Pair(n, 1)

\* raw GPS IFD: tag code -> value
RawGps(lat, lat_ref, lon, lon_ref) ==
    [t \in {1, 2, 3, 4} |->
        CASE t = 1 -> lat_ref [] t = 2 -> lat [] t = 3 -> lon_ref [] OTHER -> lon]

\* (1.0, 2.0)
RawA  == RawGps(<<Whole(1), Whole(0), Whole(0)>>, <<"N">>,
                <<Whole(2), Whole(0), Whole(0)>>, <<"E">>)
\* (-10.5, 20.25)
RawSE == RawGps(<<Whole(10), Whole(30), Whole(0)>>, <<"S">>,
                <<Whole(20), Whole(15), Whole(0)>>, <<"E">>)
\* minutes of the latitude have denominator 0
RawZero == RawGps(<<Whole(10), Pair(30, 0), Whole(0)>>, <<"N">>,
                  <<Whole(20), Whole(15), Whole(0)>>, <<"E">>)
\* RawA without its latitude hemisphere flag
RawNoRef == Without(RawA, {1})

Image(info) == [decodable |-> TRUE, info |-> info]
WithGps(raw) == Image([t \in {271, 34853} |-> IF t = 271 THEN <<"D","J","I">> ELSE raw])
NoGps   == Image([t \in {271} |-> <<"D","J","I">>])
NoExif  == Image(<<>>)
Garbage == [decodable |-> FALSE, info |-> <<>>]

File(name, content) == [name |-> name, content |-> content]

Items == {
    File(<<"a",".","j","p","g">>,     WithGps(RawA)),
    File(<<"b",".","J","P","G">>,     WithGps(RawSE)),
    File(<<"c",".","j","p","e","g">>, WithGps(RawNoRef)),
    File(<<"d",".","p","n","g">>,     WithGps(RawZero)),
    File(<<"e",".","j","p","g">>,     Garbage),
    File(<<"n",".","t","x","t">>,     WithGps(RawSE)),
    File(<<"f","j","p","g">>,         WithGps(RawSE)),
    File(<<"g",".","p","n","g">>,     NoGps),
    File(<<"h",".","j","p","e","g">>, NoExif) }

\* longest batch
MaxBatch == 3

RECURSIVE SeqsUpTo(_, _)
SeqsUpTo(S, n) ==
    IF n = 0 THEN { <<>> }
    ELSE LET shorter == SeqsUpTo(S, n - 1) IN
         shorter \cup { Append(q, x) : q \in { r \in shorter : Len(r) = n - 1 }, x \in S }

Batches == SeqsUpTo(Items, MaxBatch)

Formats == {"CSV", "KML", "SHP"}

Msg(level, text, name) == [level |-> level, text |-> text, name |-> name]
Texts(level, ws) == [k \in DOMAIN ws |-> Msg(level, ws[k], <<>>)]

(***************************************************************************)
(* Export Serializers                                                      *)
(***************************************************************************)
Digits == <<"0","1","2","3","4","5","6","7","8","9">>

\* decimal digits of a natural number
RECURSIVE IntDigits(_)
IntDigits(n) ==
    IF n < 10 THEN << Digits[n + 1] >>
    ELSE Append(IntDigits(n \div 10), Digits[(n % 10) + 1])

\* digits after the point of frac / Scale, at most left of them
RECURSIVE FracDigits(_, _)
FracDigits(frac, left) ==
    IF frac = 0 \/ left = 0 THEN <<>>
    ELSE << Digits[((frac * 10) \div Scale) + 1] >> \o FracDigits((frac * 10) % Scale, left - 1)

\* repr(float), which csv.writer uses for a float cell: sign, integer part,
\* point, the fraction's digits ("0" when there is none).  Exact for the
\* values whose decimal expansion ends within 16 digits.
FormatFloat(v) ==
    LET a == IF v < 0 THEN -v ELSE v
        fr == FracDigits(a % Scale, 16)
    IN  (IF v < 0 THEN <<"-">> ELSE <<>>) \o IntDigits(a \div Scale) \o <<".">>
          \o (IF fr = <<>> THEN <<"0">> ELSE fr)

\* csv.writer with QUOTE_MINIMAL: a cell holding the delimiter or the quote
\* character is quoted, its quotes doubled
RECURSIVE DoubleQuotes(_)
DoubleQuotes(s) ==
    IF s = <<>> THEN <<>>
    ELSE (IF Head(s) = "\"" THEN <<"\"", "\"">> ELSE << Head(s) >>) \o DoubleQuotes(Tail(s))

CsvCell(s) ==
    IF \E k \in DOMAIN s : s[k] \in {",", "\""}
    THEN <<"\"">> \o DoubleQuotes(s) \o <<"\"">>
    ELSE s

\* writer.writerow(cells): the cells joined by commas (one line of the output)
RECURSIVE CsvLine(_)
CsvLine(cells) ==
    IF Len(cells) = 0 THEN <<>>
    ELSE IF Len(cells) = 1 THEN CsvCell(cells[1])
    ELSE CsvCell(cells[1]) \o <<",">> \o CsvLine(Tail(cells))

CsvHeader == << <<"f","i","l","e","n","a","m","e">>,
                <<"l","a","t","i","t","u","d","e">>,
                <<"l","o","n","g","i","t","u","d","e">> >>

\* writer.writerow([fn, lat, lon]) for one entry (fn, lat, lon[, _])
CsvRow(c) == CsvLine(<< c[1], FormatFloat(c[2]), FormatFloat(c[3]) >>)

\* CsvLines without the header row
CsvLines_NoHeader(coords) == [k \in DOMAIN coords |-> CsvRow(coords[k])]

\* save_to_csv / save_to_csv_bytes: the lines written
CsvLines(coords) == << CsvLine(CsvHeader) >> \o [k \in DOMAIN coords |-> CsvRow(coords[k])]

\* KmlPoint with the pair in the order of the entry, (lat, lon)
KmlPoint_LatLon(c) == [name |-> c[1], coords |-> << <<c[2], c[3]>> >>]

\* kml.newpoint(name=fn, coords=[(lon, lat)]) for one entry
KmlPoint(c) == [name |-> c[1], coords |-> << <<c[3], c[2]>> >>]

\* save_to_kml / save_to_kml_bytes: the placemarks of the document
KmlPoints(coords) == [k \in DOMAIN coords |-> KmlPoint(coords[k])]

\* shp.point(lon, lat) for one entry
ShpPoint(c) == <<c[3], c[2]>>

\* shp.record(fn) for one entry
ShpRecord(c) == << c[1] >>

\* the shapefile.Writer block: field('filename', 'C'), then per entry a point
\* and a record; .shx indexes the shapes
ShpFiles(coords) ==
    [shp |-> [k \in DOMAIN coords |-> ShpPoint(coords[k])],
     shx |-> [k \in DOMAIN coords |-> k],
     dbf |-> [fields  |-> << <<"filename", "C">> >>,
              records |-> [k \in DOMAIN coords |-> ShpRecord(coords[k])]]]

\* main.py save_to_csv(coords, csv_path)
D_save_to_csv(coords) == CsvLines(coords)

\* main.py save_to_kml(coords, kml_path)
D_save_to_kml(coords) == KmlPoints(coords)

\* main.py save_to_shapefile(coords, shp_base): the three files and the .prj
D_save_to_shapefile(coords) ==
    LET f == ShpFiles(coords) IN
    [shp |-> f.shp, shx |-> f.shx, dbf |-> f.dbf, prj |-> "EPSG:4326"]

\* streamlit_app.py save_to_csv_bytes(coords)
W_save_to_csv_bytes(coords) == CsvLines(coords)

\* streamlit_app.py save_to_kml_bytes(coords)
W_save_to_kml_bytes(coords) == KmlPoints(coords)

\* streamlit_app.py save_to_shapefile_bytes(coords)
W_save_to_shapefile_bytes(coords) ==
    LET f == ShpFiles(coords) IN
    [shp |-> f.shp, shx |-> f.shx, dbf |-> f.dbf, prj |-> "GEOGCS[GCS_WGS_1984]"]

\* a file added to (or replaced in) a set of named files
Put(files, name, content) ==
    [n \in DOMAIN files \cup {name} |-> IF n = name THEN content ELSE files[n]]

\* the four files of a shapefile added under the base name 'coordinates'
PutShp(files, f) ==
    Put(Put(Put(Put(files, "coordinates.shp", f.shp), "coordinates.shx", f.shx),
            "coordinates.dbf", f.dbf), "coordinates.prj", f.prj)

(***************************************************************************)
(* Extraction Orchestrator                                                 *)
(***************************************************************************)
\* what handling one item did: crash (an exception left the handler), opened
\* (Image.open was called), add (the entries appended), msgs (messages shown),
\* prog (the progress bar was updated)
Outcome(crash, op, add, msgs, prog) ==
    [crash |-> crash, opened |-> op, add |-> add, msgs |-> msgs, prog |-> prog]

\* main.py, body of the for loop of extract_coordinates for one filename
D_Item(item) ==
    IF ~D_PassesFilter(item.name) THEN Outcome(FALSE, FALSE, <<>>, <<>>, FALSE) ELSE
    LET ex == D_get_exif_data(item.content) IN
    IF ~ex.ok THEN Outcome(TRUE, TRUE, <<>>, <<>>, FALSE) ELSE
    IF DOMAIN ex.v = {} THEN Outcome(FALSE, TRUE, <<>>, <<>>, FALSE) ELSE
    LET r == D_get_coordinates(ex.v) IN
    CASE r.tag = "raise"  -> Outcome(TRUE, TRUE, <<>>, <<>>, FALSE)
      [] r.tag = "coords" -> Outcome(FALSE, TRUE, << <<item.name, r.lat, r.lon, <<>> >> >>, <<>>, FALSE)
      [] OTHER            -> Outcome(FALSE, TRUE, <<>>, <<>>, FALSE)

\* streamlit_app.py, body of the for loop of the extraction for one upload
W_Item(item) ==
    IF ~W_PassesFilter(item.name)
    THEN Outcome(FALSE, FALSE, <<>>,
                 << Msg("warning", "Skipping unsupported file type", item.name) >>, FALSE)
    ELSE
    LET status == << Msg("status", "Processing", item.name) >>
        ex == W_get_exif_data(item.content) IN
    IF ~ex.ok THEN Outcome(FALSE, TRUE, <<>>, status \o Texts("error", ex.warn), TRUE) ELSE
    IF DOMAIN ex.v = {} THEN Outcome(FALSE, TRUE, <<>>, status, TRUE) ELSE
    LET r == W_get_coordinates(ex.v) IN
    IF r.tag = "coords"
    THEN Outcome(FALSE, TRUE, << <<item.name, r.lat, r.lon>> >>, status, TRUE)
    ELSE Outcome(FALSE, TRUE, <<>>, status \o Texts("warning", r.warn), TRUE)

(***************************************************************************)
(* Desktop: GeoSnapExtractor                                               *)
(***************************************************************************)
\* browse_output_folder: output_folder_path set
D_BrowseOutput ==
    /\ app = "desktop" /\ pc \in {"idle", "done"} /\ "output" \notin paths
    /\ paths' = paths \cup {"output"}
    /\ UNCHANGED <<app, batch, formats, coordinates, pc, i, opened, messages,
                   progress, outputs, sercalls, conv_in, conv_out, failing>>

\* one of the three check boxes clicked
D_ToggleFormat ==
    /\ app = "desktop" /\ pc \in {"idle", "done"}
    /\ \E f \in Formats : formats' = IF f \in formats THEN formats \ {f} ELSE formats \cup {f}
    /\ UNCHANGED <<app, batch, coordinates, pc, i, opened, messages,
                   progress, outputs, sercalls, paths, conv_in, conv_out, failing>>

\* D_ExtractClicked with the reset of self.coordinates ahead of the guards
D_ExtractClicked_ResetFirst ==
    /\ app = "desktop" /\ pc \in {"idle", "done"}
    /\ sercalls' = <<>>
    /\ coordinates' = <<>>
    /\ IF "folder" \notin paths
       THEN /\ messages' = << Msg("warning", "Please select an image folder.", <<>>) >>
            /\ UNCHANGED <<pc, i, opened>>
       ELSE IF "output" \notin paths
       THEN /\ messages' = << Msg("warning", "Please select an output folder.", <<>>) >>
            /\ UNCHANGED <<pc, i, opened>>
       ELSE IF formats = {}
       THEN /\ messages' = << Msg("warning", "Select at least one export format.", <<>>) >>
            /\ UNCHANGED <<pc, i, opened>>
       ELSE /\ messages' = << Msg("status", "Extracting", <<>>) >>
            /\ opened' = <<>>
            /\ pc' = "loop"
            /\ i' = 1
    /\ UNCHANGED <<app, batch, formats, progress, outputs, paths, conv_in, conv_out, failing>>

\* extract_coordinates up to the for loop: the three guards, then the reset
D_ExtractClicked ==
    /\ app = "desktop" /\ pc \in {"idle", "done"}
    /\ sercalls' = <<>>
    /\ IF "folder" \notin paths
       THEN /\ messages' = << Msg("warning", "Please select an image folder.", <<>>) >>
            /\ UNCHANGED <<coordinates, pc, i, opened>>
       ELSE IF "output" \notin paths
       THEN /\ messages' = << Msg("warning", "Please select an output folder.", <<>>) >>
            /\ UNCHANGED <<coordinates, pc, i, opened>>
       ELSE IF formats = {}
       THEN /\ messages' = << Msg("warning", "Select at least one export format.", <<>>) >>
            /\ UNCHANGED <<coordinates, pc, i, opened>>
       ELSE /\ messages' = << Msg("status", "Extracting", <<>>) >>
            /\ opened' = <<>>
            /\ coordinates' = <<>>
            /\ pc' = "loop"
            /\ i' = 1
    /\ UNCHANGED <<app, batch, formats, progress, outputs, paths, conv_in, conv_out, failing>>

\* one iteration of the for loop of extract_coordinates
D_LoopStep ==
    /\ app = "desktop" /\ pc = "loop" /\ i <= Len(batch)
    /\ LET o == D_Item(batch[i]) IN
       /\ opened' = IF o.opened THEN Append(opened, i) ELSE opened
       /\ coordinates' = coordinates \o o.add
       /\ messages' = messages \o o.msgs
       /\ IF o.crash THEN pc' = "crashed" /\ i' = i
                     ELSE pc' = pc /\ i' = i + 1
    /\ UNCHANGED <<app, batch, formats, progress, outputs, sercalls, paths, conv_in, conv_out, failing>>

\* the files extract_coordinates writes for the checked formats, in its order
D_Exports(files, fmts, coords) ==
    LET f1 == IF "CSV" \in fmts THEN Put(files, "coordinates.csv", D_save_to_csv(coords)) ELSE files
        f2 == IF "KML" \in fmts THEN Put(f1, "coordinates.kml", D_save_to_kml(coords)) ELSE f1
    IN  IF "SHP" \in fmts THEN PutShp(f2, D_save_to_shapefile(coords)) ELSE f2

\* the serializers called for a selection, in call order
CallsFor(fmts) ==
    (IF "CSV" \in fmts THEN <<"CSV">> ELSE <<>>) \o
    (IF "KML" \in fmts THEN <<"KML">> ELSE <<>>) \o
    (IF "SHP" \in fmts THEN <<"SHP">> ELSE <<>>)

\* the export statements run one after another with no handler around them:
\* the position in the call order of the first call that raises, 0 if none
FirstFailure(calls, bad) ==
    IF \E k \in DOMAIN calls : calls[k] \in bad
    THEN CHOOSE k \in DOMAIN calls :
             calls[k] \in bad /\ \A j \in 1..(k - 1) : calls[j] \notin bad
    ELSE 0

\* the serializer calls made: those up to and including the first that raises
CallsMade(calls, bad) ==
    IF FirstFailure(calls, bad) = 0 THEN calls
    ELSE SubSeq(calls, 1, FirstFailure(calls, bad))

\* the formats whose serializer was called and returned
Returned(calls, bad) ==
    {calls[k] : k \in {j \in DOMAIN calls :
                          FirstFailure(calls, bad) = 0 \/ j < FirstFailure(calls, bad)}}

\* extract_coordinates after the for loop: update_map (it writes map.html for
\* the preview and touches none of the variables here), the empty-result
\* return, the exports; a serializer that raises ends the slot before the
\* later exports and before the status line
D_Finish ==
    /\ app = "desktop" /\ pc = "loop" /\ i > Len(batch)
    /\ IF coordinates = <<>>
       THEN /\ pc' = "done"
            /\ messages' = messages \o << Msg("information", "No images with GPS data found.", <<>>),
                                          Msg("status", "No GPS data found.", <<>>) >>
            /\ UNCHANGED <<outputs, sercalls>>
       ELSE /\ outputs' = [kind |-> "dir",
                           files |-> D_Exports(outputs.files,
                                               Returned(CallsFor(formats), failing), coordinates)]
            /\ sercalls' = sercalls \o CallsMade(CallsFor(formats), failing)
            /\ IF FirstFailure(CallsFor(formats), failing) = 0
               THEN /\ pc' = "done"
                    /\ messages' = messages \o << Msg("status", "Done! Files saved", <<>>) >>
               ELSE /\ pc' = "crashed"
                    /\ UNCHANGED messages
    /\ UNCHANGED <<app, batch, formats, coordinates, i, opened, progress, paths, conv_in, conv_out, failing>>

(***************************************************************************)
(* Web: the Streamlit script; every interaction reruns it, which clears    *)
(* what the previous run displayed                                         *)
(***************************************************************************)
\* W_ExtractClicked without the reset of st.session_state.coordinates
W_ExtractClicked_KeepResults ==
    /\ app = "web" /\ pc \in {"idle", "done"} /\ batch # <<>>
    /\ progress' = <<0, 1>>
    /\ messages' = <<>> /\ opened' = <<>> /\ sercalls' = <<>> /\ outputs' = NoOutputs
    /\ pc' = "loop" /\ i' = 1
    /\ UNCHANGED <<app, batch, formats, coordinates, paths, conv_in, conv_out, failing>>

\* "Extract Coordinates" pressed: shown only while files are uploaded
W_ExtractClicked ==
    /\ app = "web" /\ pc \in {"idle", "done"} /\ batch # <<>>
    /\ coordinates' = <<>>
    /\ progress' = <<0, 1>>
    /\ messages' = <<>> /\ opened' = <<>> /\ sercalls' = <<>> /\ outputs' = NoOutputs
    /\ pc' = "loop" /\ i' = 1
    /\ UNCHANGED <<app, batch, formats, paths, conv_in, conv_out, failing>>

\* W_LoopStep with the new entry put in front of the list
W_LoopStep_Prepend ==
    /\ app = "web" /\ pc = "loop" /\ i <= Len(batch)
    /\ LET o == W_Item(batch[i]) IN
       /\ opened' = IF o.opened THEN Append(opened, i) ELSE opened
       /\ coordinates' = o.add \o coordinates
       /\ messages' = messages \o o.msgs
       /\ progress' = IF o.prog THEN <<i, Len(batch)>> ELSE progress
    /\ i' = i + 1
    /\ UNCHANGED <<app, batch, formats, pc, outputs, sercalls, paths, conv_in, conv_out, failing>>

\* one iteration of `for i, uploaded_file in enumerate(uploaded_files)`
W_LoopStep ==
    /\ app = "web" /\ pc = "loop" /\ i <= Len(batch)
    /\ LET o == W_Item(batch[i]) IN
       /\ opened' = IF o.opened THEN Append(opened, i) ELSE opened
       /\ coordinates' = coordinates \o o.add
       /\ messages' = messages \o o.msgs
       /\ progress' = IF o.prog THEN <<i, Len(batch)>> ELSE progress
    /\ i' = i + 1
    /\ UNCHANGED <<app, batch, formats, pc, outputs, sercalls, paths, conv_in, conv_out, failing>>

\* after the loop: "Extraction complete!" and the summary
W_Finish ==
    /\ app = "web" /\ pc = "loop" /\ i > Len(batch)
    /\ pc' = "done"
    /\ messages' = messages \o
         << Msg("status", "Extraction complete!", <<>>),
            IF coordinates = <<>>
            THEN Msg("warning", "No GPS data found in the selected images or failed to parse coordinates.", <<>>)
            ELSE Msg("success", "Successfully extracted coordinates", <<>>) >>
    /\ UNCHANGED <<app, batch, formats, coordinates, i, opened, progress, outputs,
                   sercalls, paths, conv_in, conv_out, failing>>

\* the export multiselect changed: shown only while coordinates are held
W_SelectFormats ==
    /\ app = "web" /\ pc = "done" /\ coordinates # <<>>
    /\ \E f \in Formats : formats' = IF f \in formats THEN formats \ {f} ELSE formats \cup {f}
    /\ messages' = <<>> /\ sercalls' = <<>> /\ outputs' = NoOutputs
    /\ UNCHANGED <<app, batch, coordinates, pc, i, opened, progress, paths, conv_in, conv_out, failing>>

\* the members of the zip archive of the download handler
W_ZipMembers(fmts, coords) ==
    LET f1 == IF "CSV" \in fmts THEN Put(<<>>, "coordinates.csv", W_save_to_csv_bytes(coords)) ELSE <<>>
        f2 == IF "KML" \in fmts THEN Put(f1, "coordinates.kml", W_save_to_kml_bytes(coords)) ELSE f1
    IN  IF "SHP" \in fmts THEN PutShp(f2, W_save_to_shapefile_bytes(coords)) ELSE f2

\* the serializers the download handler calls for a selection, in call order
W_Calls(fmts) ==
    IF Cardinality(fmts) > 1 \/ "SHP" \in fmts THEN CallsFor(fmts)
    ELSE IF "CSV" \in fmts THEN <<"CSV">>
    ELSE IF "KML" \in fmts THEN <<"KML">> ELSE <<>>

\* "Download Selected Formats" pressed; a serializer that raises ends the
\* script run before st.download_button: the exception is shown and no
\* payload is offered
W_DownloadClicked ==
    /\ app = "web" /\ pc = "done" /\ coordinates # <<>>
    /\ IF formats = {}
       THEN /\ messages' = << Msg("warning", "Please select at least one format to download.", <<>>) >>
            /\ outputs' = NoOutputs
            /\ sercalls' = <<>>
       ELSE /\ sercalls' = CallsMade(W_Calls(formats), failing)
            /\ IF FirstFailure(W_Calls(formats), failing) # 0
               THEN /\ messages' = << Msg("exception", "uncaught exception", <<>>) >>
                    /\ outputs' = NoOutputs
               ELSE /\ messages' = <<>>
                    /\ outputs' =
                         IF Cardinality(formats) > 1 \/ "SHP" \in formats
                         THEN [kind |-> "geosnap_coordinates.zip",
                               files |-> W_ZipMembers(formats, coordinates)]
                         ELSE IF "CSV" \in formats
                         THEN [kind |-> "coordinates.csv",
                               files |-> Put(<<>>, "coordinates.csv", W_save_to_csv_bytes(coordinates))]
                         ELSE [kind |-> "coordinates.kml",
                               files |-> Put(<<>>, "coordinates.kml", W_save_to_kml_bytes(coordinates))]
    /\ UNCHANGED <<app, batch, formats, coordinates, pc, i, opened, progress, paths, conv_in, conv_out, failing>>

(***************************************************************************)
(* Specification of one batch: every batch of up to MaxBatch files, the    *)
(* default format selection, both programs                                 *)
(***************************************************************************)
\* setChecked(True) three times / default=["CSV", "KML"]
DefaultFormats(a) == IF a = "desktop" THEN {"CSV", "KML", "SHP"} ELSE {"CSV", "KML"}

Init ==
    /\ app \in Apps
    /\ batch \in Batches
    /\ formats = DefaultFormats(app)
    /\ paths = IF app = "desktop" THEN {"folder", "output"} ELSE {}
    /\ coordinates = <<>> /\ pc = "idle" /\ i = 0
    /\ opened = <<>> /\ messages = <<>> /\ progress = <<0, 1>>
    /\ outputs = NoOutputs /\ sercalls = <<>>
    /\ conv_in = <<>> /\ conv_out = NotCalled /\ failing = {}

Next ==
    \/ D_ExtractClicked \/ D_LoopStep \/ D_Finish
    \/ W_ExtractClicked \/ W_LoopStep \/ W_Finish \/ W_DownloadClicked

Spec == Init /\ [][Next]_vars

(***************************************************************************)
(* Specification of the serializers alone: every CoordinateSet of up to    *)
(* MaxCoords entries, each serializer called on it                         *)
(***************************************************************************)
\* q quarters of a degree
Quarter(q) == (q * Scale) \div 4

\* img1.jpg, x.png
SerNames == { <<"i","m","g","1",".","j","p","g">>, <<"x",".","p","n","g">> }

\* 12.5, -10.5, 0.0
SerLats == { Quarter(50), Quarter(-42), Quarter(0) }

\* -1.25, 20.25
SerLons == { Quarter(-5), Quarter(81) }

\* an entry as the program appends it: main.py adds an empty fourth field
Entry(a, fn, lat, lon) == IF a = "desktop" THEN <<fn, lat, lon, <<>> >> ELSE <<fn, lat, lon>>

SerEntries(a) == { Entry(a, fn, lat, lon) : fn \in SerNames, lat \in SerLats, lon \in SerLons }

\* longest CoordinateSet handed to a serializer
MaxCoords == 2

SerInit ==
    /\ app \in Apps
    /\ coordinates \in SeqsUpTo(SerEntries(app), MaxCoords)
    /\ pc = "ser"
    /\ batch = <<>> /\ formats = {} /\ i = 0 /\ paths = {}
    /\ opened = <<>> /\ messages = <<>> /\ progress = <<0, 1>>
    /\ outputs = NoOutputs /\ sercalls = <<>>
    /\ conv_in = <<>> /\ conv_out = NotCalled /\ failing = {}

servars == <<app, batch, formats, coordinates, pc, i, opened, messages, progress,
             paths, conv_in, conv_out, failing>>

\* save_to_csv / save_to_csv_bytes called on the set
CallSaveCsv ==
    /\ pc = "ser" /\ \A k \in DOMAIN sercalls : sercalls[k] # "CSV"
    /\ sercalls' = Append(sercalls, "CSV")
    /\ outputs' = [kind |-> "ser",
                   files |-> Put(outputs.files, "coordinates.csv",
                                 IF app = "desktop" THEN D_save_to_csv(coordinates)
                                 ELSE W_save_to_csv_bytes(coordinates))]
    /\ UNCHANGED servars

\* save_to_kml / save_to_kml_bytes called on the set
CallSaveKml ==
    /\ pc = "ser" /\ \A k \in DOMAIN sercalls : sercalls[k] # "KML"
    /\ sercalls' = Append(sercalls, "KML")
    /\ outputs' = [kind |-> "ser",
                   files |-> Put(outputs.files, "coordinates.kml",
                                 IF app = "desktop" THEN D_save_to_kml(coordinates)
                                 ELSE W_save_to_kml_bytes(coordinates))]
    /\ UNCHANGED servars

\* save_to_shapefile / save_to_shapefile_bytes called on the set
CallSaveShapefile ==
    /\ pc = "ser" /\ \A k \in DOMAIN sercalls : sercalls[k] # "SHP"
    /\ sercalls' = Append(sercalls, "SHP")
    /\ outputs' = [kind |-> "ser",
                   files |-> PutShp(outputs.files,
                                    IF app = "desktop" THEN D_save_to_shapefile(coordinates)
                                    ELSE W_save_to_shapefile_bytes(coordinates))]
    /\ UNCHANGED servars

SerNext == CallSaveCsv \/ CallSaveKml \/ CallSaveShapefile

SpecSer == SerInit /\ [][SerNext]_vars

(***************************************************************************)
(* Specification of the user interface: any sequence of file selections,   *)
(* format selections, extractions and downloads over a small set of files  *)
(***************************************************************************)
UIItems == { File(<<"a",".","j","p","g">>, WithGps(RawA)),
             File(<<"e",".","j","p","g">>, Garbage) }

\* longest batch of the user interface specification
MaxUIBatch == 2

\* browse_folder / dropEvent with another folder: folder_path set, its
\* listing is what the next extraction iterates
D_SelectFolder ==
    /\ app = "desktop" /\ pc \in {"idle", "done"}
    /\ paths' = paths \cup {"folder"}
    /\ batch' \in SeqsUpTo(UIItems, MaxUIBatch)
    /\ UNCHANGED <<app, formats, coordinates, pc, i, opened, messages,
                   progress, outputs, sercalls, conv_in, conv_out, failing>>

\* the file uploader changed: the script reruns with the new uploaded_files
W_Upload ==
    /\ app = "web" /\ pc \in {"idle", "done"}
    /\ batch' \in SeqsUpTo(UIItems, MaxUIBatch)
    /\ messages' = <<>> /\ sercalls' = <<>> /\ outputs' = NoOutputs
    /\ UNCHANGED <<app, formats, coordinates, pc, i, opened, progress, paths, conv_in, conv_out, failing>>

UIInit ==
    /\ app \in Apps
    /\ batch = <<>>
    /\ formats = DefaultFormats(app)
    /\ paths = {}
    /\ coordinates = <<>> /\ pc = "idle" /\ i = 0
    /\ opened = <<>> /\ messages = <<>> /\ progress = <<0, 1>>
    /\ outputs = NoOutputs /\ sercalls = <<>>
    /\ conv_in = <<>> /\ conv_out = NotCalled /\ failing = {}

UINext ==
    \/ D_SelectFolder \/ D_BrowseOutput \/ D_ToggleFormat
    \/ D_ExtractClicked \/ D_LoopStep \/ D_Finish
    \/ W_Upload \/ W_SelectFormats
    \/ W_ExtractClicked \/ W_LoopStep \/ W_Finish \/ W_DownloadClicked

SpecUI == UIInit /\ [][UINext]_vars

(***************************************************************************)
(* Specification of the exports: one batch, any selection of formats, any  *)
(* set of formats whose destination cannot be written                      *)
(***************************************************************************)
ExportInit ==
    /\ app \in Apps
    /\ batch \in SeqsUpTo(UIItems, MaxUIBatch)
    /\ failing \in SUBSET Formats
    /\ formats = DefaultFormats(app)
    /\ paths = IF app = "desktop" THEN {"folder", "output"} ELSE {}
    /\ coordinates = <<>> /\ pc = "idle" /\ i = 0
    /\ opened = <<>> /\ messages = <<>> /\ progress = <<0, 1>>
    /\ outputs = NoOutputs /\ sercalls = <<>>
    /\ conv_in = <<>> /\ conv_out = NotCalled

ExportNext ==
    \/ D_ToggleFormat \/ D_ExtractClicked \/ D_LoopStep \/ D_Finish
    \/ W_SelectFormats \/ W_ExtractClicked \/ W_LoopStep \/ W_Finish \/ W_DownloadClicked

SpecExport == ExportInit /\ [][ExportNext]_vars

(***************************************************************************)
(* Specification of one batch over files whose GPS blocks lie at and       *)
(* beyond the ends of the coordinate ranges                                *)
(***************************************************************************)
\* (90.0, 180.0): the ends of both ranges
RawEdge == RawGps(<<Whole(90), Whole(0), Whole(0)>>, <<"N">>,
                  <<Whole(180), Whole(0), Whole(0)>>, <<"E">>)
\* latitude degrees 91
RawLat91 == RawGps(<<Whole(91), Whole(0), Whole(0)>>, <<"N">>,
                   <<Whole(2), Whole(0), Whole(0)>>, <<"E">>)
\* longitude degrees 181, west
RawLon181 == RawGps(<<Whole(1), Whole(0), Whole(0)>>, <<"N">>,
                    <<Whole(181), Whole(0), Whole(0)>>, <<"W">>)
\* latitude 89 degrees 61 minutes, south: minutes beyond 60 carry it past 90
RawMin61 == RawGps(<<Whole(89), Whole(61), Whole(0)>>, <<"S">>,
                   <<Whole(2), Whole(0), Whole(0)>>, <<"E">>)
\* latitude 10 degrees 61 minutes: minutes beyond 60, the value within range
RawMin61In == RawGps(<<Whole(10), Whole(61), Whole(0)>>, <<"N">>,
                     <<Whole(20), Whole(0), Whole(61)>>, <<"E">>)

RangeItems == { File(<<"a",".","j","p","g">>, WithGps(RawA)),
                File(<<"k",".","j","p","g">>, WithGps(RawEdge)),
                File(<<"p",".","j","p","g">>, WithGps(RawLat91)),
                File(<<"q",".","j","p","g">>, WithGps(RawLon181)),
                File(<<"r",".","j","p","g">>, WithGps(RawMin61)),
                File(<<"s",".","j","p","g">>, WithGps(RawMin61In)) }

RangeInit ==
    /\ app \in Apps
    /\ batch \in SeqsUpTo(RangeItems, MaxUIBatch)
    /\ formats = DefaultFormats(app)
    /\ paths = IF app = "desktop" THEN {"folder", "output"} ELSE {}
    /\ coordinates = <<>> /\ pc = "idle" /\ i = 0
    /\ opened = <<>> /\ messages = <<>> /\ progress = <<0, 1>>
    /\ outputs = NoOutputs /\ sercalls = <<>>
    /\ conv_in = <<>> /\ conv_out = NotCalled /\ failing = {}

SpecRange == RangeInit /\ [][Next]_vars

(***************************************************************************)
(* Vocabulary of the claims                                                *)
(***************************************************************************)
\* the extension of a file name: what follows its last dot, lower-cased
\* (the empty text when the name has no dot)
Extension(name) ==
    IF \E k \in DOMAIN name : name[k] = "."
    THEN LET last == CHOOSE k \in DOMAIN name :
                        name[k] = "." /\ \A j \in DOMAIN name : j > k => name[j] # "."
         IN  Lower(SubSeq(name, last + 1, Len(name)))
    ELSE <<>>

\* .jpg, .jpeg, .png compared case-insensitively
Recognized(name) ==
    Extension(name) \in { <<"j","p","g">>, <<"j","p","e","g">>, <<"p","n","g">> }

\* a component the resolution rule resolves: a plain number, or a pair with a
\* non-zero denominator
Resolvable(c) == c.k = "num" \/ (c.k = "pair" /\ c.d # 0)

\* a magnitude of three resolvable components
ResolvableTriple(t) == Len(t) = 3 /\ \A k \in 1..3 : Resolvable(t[k])

\* a GPSInfo dict that is a GpsBlock of the data model: the four keys, three
\* resolvable components per axis, hemisphere flags in {N, S} and {E, W}
WellFormed(gps) ==
    /\ DOMAIN gps = GpsKeys
    /\ ResolvableTriple(gps["GPSLatitude"])
    /\ ResolvableTriple(gps["GPSLongitude"])
    /\ gps["GPSLatitudeRef"] \in { <<"N">>, <<"S">> }
    /\ gps["GPSLongitudeRef"] \in { <<"E">>, <<"W">> }

\* a GPSInfo dict that is malformed in one of the ways the claims name: a
\* component with denominator 0 or of another shape, or a magnitude whose
\* hemisphere flag is missing
Malformed(gps) ==
    \/ \E key \in {"GPSLatitude", "GPSLongitude"} :
          key \in DOMAIN gps /\ ~ResolvableTriple(gps[key])
    \/ "GPSLatitude" \in DOMAIN gps /\ "GPSLatitudeRef" \notin DOMAIN gps
    \/ "GPSLongitude" \in DOMAIN gps /\ "GPSLongitudeRef" \notin DOMAIN gps

\* the raw bytes of a file hold an image with a GPS block
HasGps(content) == content.decodable /\ 34853 \in DOMAIN content.info

\* the GPS block of such a file, its tags named
GpsOf(content) == Decoded(content.info[34853], GPSTAGS)

\* a file whose handling fails: a recognized name on bytes that are no image
\* or on a malformed GPS block
FailingItem(item) ==
    /\ Recognized(item.name)
    /\ \/ ~item.content.decodable
       \/ HasGps(item.content) /\ Malformed(GpsOf(item.content))

\* a file that carries valid GPS data under a recognized name
ValidItem(item) ==
    Recognized(item.name) /\ HasGps(item.content) /\ WellFormed(GpsOf(item.content))

\* the names of the entries of the CoordinateSet
Names(coords) == { coords[k][1] : k \in DOMAIN coords }

\* the handler of the batch has ended, by returning or by an exception
Ended == pc \in {"done", "crashed"}

(***************************************************************************)
(* C1                                                                      *)
(***************************************************************************)
\* C1: partial-failure isolation.  No item's failure ends the batch early
\* (no exception leaves the handler), and once the batch has ended every
\* valid item that comes after a failing item is in the CoordinateSet.
C1_PartialFailureIsolation ==
    /\ pc # "crashed"
    /\ Ended =>
         \A k \in DOMAIN batch : \A j \in DOMAIN batch :
            (k < j /\ FailingItem(batch[k]) /\ ValidItem(batch[j]))
               => batch[j].name \in Names(coordinates)

(***************************************************************************)
(* C2                                                                      *)
(***************************************************************************)
\* the item passed the program's extension filter and its GPS block converted
Converted(a, item) ==
    /\ IF a = "desktop" THEN D_PassesFilter(item.name) ELSE W_PassesFilter(item.name)
    /\ HasGps(item.content)
    /\ (IF a = "desktop" THEN D_get_coordinates(ExifDict(item.content.info))
        ELSE W_get_coordinates(ExifDict(item.content.info))).tag = "coords"

\* the entry of a converted item
EntryOf(a, item) ==
    LET r == IF a = "desktop" THEN D_get_coordinates(ExifDict(item.content.info))
             ELSE W_get_coordinates(ExifDict(item.content.info))
    IN  Entry(a, item.name, r.lat, r.lon)

\* one entry per converted item of the batch, in batch order
RECURSIVE ExpectedSet(_, _)
ExpectedSet(a, b) ==
    IF b = <<>> THEN <<>>
    ELSE (IF Converted(a, Head(b)) THEN << EntryOf(a, Head(b)) >> ELSE <<>>)
         \o ExpectedSet(a, Tail(b))

\* C2: at batch completion the CoordinateSet holds exactly one entry per item
\* that passed the extension filter and converted, none for any other item,
\* in the order of the batch.
C2_ExactlyTheConvertedInOrder ==
    pc = "done" => coordinates = ExpectedSet(app, batch)

\* a completed batch of three, one item of which left no entry, the two
\* entries from different files
C2_Witness ==
    /\ pc = "done" /\ Len(batch) = 3 /\ Len(coordinates) = 2
    /\ coordinates[1][1] # coordinates[2][1]

(***************************************************************************)
(* C3                                                                      *)
(***************************************************************************)
\* C3: for every malformed GPS block get_coordinates returns None and never
\* raises.
C3_MalformedGivesNone ==
    (conv_out # NotCalled /\ Malformed(conv_in["GPSInfo"])) => conv_out.tag = "None"

(***************************************************************************)
(* C4                                                                      *)
(***************************************************************************)
\* all components of the magnitude are non-negative
NonNegative(t) == \A k \in DOMAIN t : t[k].n >= 0 /\ t[k].d >= 0

\* a valid GpsBlock in the sense of the sign law
ValidForSign(gps) ==
    /\ WellFormed(gps)
    /\ NonNegative(gps["GPSLatitude"]) /\ NonNegative(gps["GPSLongitude"])

\* C4: hemisphere sign law.  For a valid GpsBlock get_coordinates returns a
\* pair with latitude <= 0 for S and >= 0 for N, longitude <= 0 for W and
\* >= 0 for E.
C4_HemisphereSignLaw ==
    (conv_out # NotCalled /\ ValidForSign(conv_in["GPSInfo"])) =>
        LET gps == conv_in["GPSInfo"] IN
        /\ conv_out.tag = "coords"
        /\ gps["GPSLatitudeRef"] = <<"S">> => conv_out.lat <= 0
        /\ gps["GPSLatitudeRef"] = <<"N">> => conv_out.lat >= 0
        /\ gps["GPSLongitudeRef"] = <<"W">> => conv_out.lon <= 0
        /\ gps["GPSLongitudeRef"] = <<"E">> => conv_out.lon >= 0

\* a valid block of the southern and western hemispheres converted to a
\* strictly negative pair
C4_Witness ==
    /\ conv_out.tag = "coords" /\ ValidForSign(conv_in["GPSInfo"])
    /\ conv_in["GPSInfo"]["GPSLatitudeRef"] = <<"S">>
    /\ conv_in["GPSInfo"]["GPSLongitudeRef"] = <<"W">>
    /\ conv_out.lat < 0 /\ conv_out.lon < 0

(***************************************************************************)
(* C5                                                                      *)
(***************************************************************************)
\* the six components are (numerator, denominator) pairs with non-zero
\* denominators and the block is a GpsBlock with both hemisphere flags
AllPairs(gps) ==
    /\ WellFormed(gps)
    /\ \A key \in {"GPSLatitude", "GPSLongitude"} : \A k \in 1..3 : gps[key][k].k = "pair"

\* v / Scale = sign * (n1/d1 + n2/(60 d2) + n3/(3600 d3)), both sides
\* multiplied by d1 d2 d3 Scale (Scale is a multiple of 3600)
IsDms(v, t, negate) ==
    v * t[1].d * t[2].d * t[3].d =
        (IF negate THEN -1 ELSE 1) * (Scale \div 3600) *
        (3600 * t[1].n * t[2].d * t[3].d + 60 * t[2].n * t[1].d * t[3].d
           + t[3].n * t[1].d * t[2].d)

\* the block of the concrete scenario
ScenarioBlock ==
    Block(<<Pair(10, 1), Pair(30, 1), Pair(0, 1)>>, <<"S">>,
          <<Pair(20, 1), Pair(15, 1), Pair(0, 1)>>, <<"E">>)

\* C5: for a block of six pairs with non-zero denominators and both flags,
\* each axis is degrees + minutes/60 + seconds/3600 on the resolved
\* rationals, negated exactly for S and for W; the scenario block converts
\* to (-10.5, 20.25).
C5_DegreesMinutesSeconds ==
    (conv_out # NotCalled /\ AllPairs(conv_in["GPSInfo"])) =>
        LET gps == conv_in["GPSInfo"] IN
        /\ conv_out.tag = "coords"
        /\ IsDms(conv_out.lat, gps["GPSLatitude"], gps["GPSLatitudeRef"] = <<"S">>)
        /\ IsDms(conv_out.lon, gps["GPSLongitude"], gps["GPSLongitudeRef"] = <<"W">>)
        /\ gps = ScenarioBlock =>
              /\ 2 * conv_out.lat = -21 * Scale
              /\ 4 * conv_out.lon = 81 * Scale

\* the scenario block converted
C5_Witness ==
    /\ conv_out.tag = "coords"
    /\ conv_in["GPSInfo"] = ScenarioBlock

(***************************************************************************)
(* C6, C7: reading the outputs back                                        *)
(***************************************************************************)
\* the cells of a line without quoted cells
RECURSIVE SplitCommas(_)
SplitCommas(line) ==
    IF \A k \in DOMAIN line : line[k] # "," THEN << line >>
    ELSE LET first == CHOOSE k \in DOMAIN line :
                         line[k] = "," /\ \A j \in 1..(k - 1) : line[j] # ","
         IN  << SubSeq(line, 1, first - 1) >> \o SplitCommas(SubSeq(line, first + 1, Len(line)))

\* the number a digit character stands for
DigitValue(c) == (CHOOSE k \in DOMAIN Digits : Digits[k] = c) - 1

\* the natural number a digit text stands for
RECURSIVE NatOf(_)
NatOf(ds) ==
    IF ds = <<>> THEN 0
    ELSE 10 * NatOf(SubSeq(ds, 1, Len(ds) - 1)) + DigitValue(ds[Len(ds)])

RECURSIVE Pow10(_)
Pow10(n) == IF n = 0 THEN 1 ELSE 10 * Pow10(n - 1)

\* a decimal text "[-]digits.digits" read as a multiple of 1/Scale; exact
\* tells whether the text is such a multiple
ParseDecimal(text) ==
    LET neg  == text # <<>> /\ text[1] = "-"
        body == IF neg THEN Tail(text) ELSE text
        dot  == CHOOSE k \in DOMAIN body : body[k] = "."
        ip   == NatOf(SubSeq(body, 1, dot - 1))
        fd   == SubSeq(body, dot + 1, Len(body))
        fnum == NatOf(fd) * Scale
        a    == ip * Scale + (fnum \div Pow10(Len(fd)))
    IN  [exact |-> fnum % Pow10(Len(fd)) = 0, v |-> IF neg THEN -a ELSE a]

\* the text is the decimal rendering of exactly v
Renders(text, v) ==
    /\ \E k \in DOMAIN text : text[k] = "."
    /\ ParseDecimal(text).exact
    /\ ParseDecimal(text).v = v

Called(f) == \E k \in DOMAIN sercalls : sercalls[k] = f

CsvOut == outputs.files["coordinates.csv"]
KmlOut == outputs.files["coordinates.kml"]
ShpOut == outputs.files["coordinates.shp"]
ShxOut == outputs.files["coordinates.shx"]
DbfOut == outputs.files["coordinates.dbf"]

HeaderLine == <<"f","i","l","e","n","a","m","e",",","l","a","t","i","t","u","d","e",",","l","o","n","g","i","t","u","d","e">>

\* the set [("img1.jpg", 12.5, -1.25)]
ScenarioSet == << Entry(app, <<"i","m","g","1",".","j","p","g">>, Quarter(50), Quarter(-5)) >>

\* C6: the point-markup and geometry serializers emit each point as
\* (lon, lat), the tabular serializer emits each row as (filename, lat, lon),
\* the stored values unchanged; the set [("img1.jpg", 12.5, -1.25)] gives the
\* header line followed by img1.jpg,12.5,-1.25.
C6_AxisOrderPerFormat ==
    /\ Called("KML") =>
          \A k \in DOMAIN coordinates :
             k \in DOMAIN KmlOut /\ KmlOut[k].coords = << <<coordinates[k][3], coordinates[k][2]>> >>
    /\ Called("SHP") =>
          \A k \in DOMAIN coordinates :
             k \in DOMAIN ShpOut /\ ShpOut[k] = <<coordinates[k][3], coordinates[k][2]>>
    /\ Called("CSV") =>
          /\ \A k \in DOMAIN coordinates :
                /\ (k + 1) \in DOMAIN CsvOut
                /\ LET cells == SplitCommas(CsvOut[k + 1]) IN
                   /\ Len(cells) = 3
                   /\ cells[1] = coordinates[k][1]
                   /\ Renders(cells[2], coordinates[k][2])
                   /\ Renders(cells[3], coordinates[k][3])
          /\ coordinates = ScenarioSet =>
                CsvOut = << HeaderLine, <<"i","m","g","1",".","j","p","g",",","1","2",".","5",",","-","1",".","2","5">> >>

\* the scenario set put through all three serializers
C6_Witness ==
    /\ pc = "ser" /\ coordinates = ScenarioSet
    /\ Called("CSV") /\ Called("KML") /\ Called("SHP")

\* C7: for a set of n >= 0 entries each serializer succeeds and emits
\* exactly n records in set order, the i-th with the i-th filename: CSV a
\* header row and n rows, KML n named points, shapefile n points and n
\* records in the single text field 'filename'; also for n = 0.
C7_OneRecordPerEntry ==
    LET n == Len(coordinates) IN
    /\ Called("CSV") =>
          /\ "coordinates.csv" \in DOMAIN outputs.files
          /\ Len(CsvOut) = n + 1
          /\ CsvOut[1] = HeaderLine
          /\ \A k \in 1..n : SplitCommas(CsvOut[k + 1])[1] = coordinates[k][1]
    /\ Called("KML") =>
          /\ "coordinates.kml" \in DOMAIN outputs.files
          /\ Len(KmlOut) = n
          /\ \A k \in 1..n : KmlOut[k].name = coordinates[k][1] /\ Len(KmlOut[k].coords) = 1
    /\ Called("SHP") =>
          /\ {"coordinates.shp", "coordinates.shx", "coordinates.dbf", "coordinates.prj"}
                \subseteq DOMAIN outputs.files
          /\ Len(ShpOut) = n /\ Len(ShxOut) = n
          /\ DbfOut.fields = << <<"filename", "C">> >>
          /\ Len(DbfOut.records) = n
          /\ \A k \in 1..n : DbfOut.records[k] = << coordinates[k][1] >>

\* the empty set put through all three serializers
C7_Witness ==
    /\ pc = "ser" /\ coordinates = <<>>
    /\ Called("CSV") /\ Called("KML") /\ Called("SHP")

(***************************************************************************)
(* C8                                                                      *)
(***************************************************************************)
\* the positions of the batch the extraction has opened
OpenedSet == { opened[k] : k \in DOMAIN opened }

\* the positions of the batch the loop has gone through
Handled == IF pc \in {"loop", "done"} THEN { k \in DOMAIN batch : k < i } ELSE {}

\* C8: extension filter.  An item is handed to the Metadata Reader if and
\* only if its extension is .jpg, .jpeg or .png, compared case-insensitively;
\* any other item is never opened and never contributes a Coordinate.
C8_ExtensionFilter ==
    /\ \A k \in OpenedSet : Recognized(batch[k].name)
    /\ \A k \in Handled : Recognized(batch[k].name) => k \in OpenedSet
    /\ \A k \in DOMAIN coordinates :
          \A j \in DOMAIN batch :
             batch[j].name = coordinates[k][1] => Recognized(batch[j].name)

(***************************************************************************)
(* C9                                                                      *)
(***************************************************************************)
\* the messages that record why one item was skipped
SkipTexts ==
    { "Skipping unsupported file type", "Error reading EXIF data",
      "Could not parse GPS coordinates",
      "An unexpected error occurred during coordinate conversion" }

\* how many skips the current request has recorded with a reason
SkipsRecorded ==
    Cardinality({ k \in DOMAIN messages :
                    messages[k].level \in {"warning", "error"}
                    /\ messages[k].text \in SkipTexts })

\* C9: no silent data loss.  When a batch completes every item is either an
\* entry of the CoordinateSet or a skip with one recorded reason, so that
\* succeeded + skipped = total.
C9_EveryItemAccounted ==
    pc = "done" => Len(coordinates) + SkipsRecorded = Len(batch)

(***************************************************************************)
(* C10                                                                     *)
(***************************************************************************)
\* a request made while no export format is selected: the desktop's Extract
\* (which exports) or the web's Download
RequestWithoutFormat ==
    formats = {} /\ (D_ExtractClicked \/ W_DownloadClicked)

\* C10: a request with no export format selected is rejected before the core
\* runs: no image is read, no serializer is called, no file or payload is
\* produced, and the CoordinateSet held before is unchanged.
C10_NoFormatRejected ==
    [][ RequestWithoutFormat =>
          /\ coordinates' = coordinates
          /\ opened' = opened
          /\ sercalls' = <<>>
          /\ pc' = pc
          /\ outputs' = (IF app = "desktop" THEN outputs ELSE NoOutputs) ]_vars

\* the state after such a rejection, a CoordinateSet of an earlier batch held
C10_Witness ==
    /\ formats = {} /\ coordinates # <<>> /\ pc = "done"
    /\ Len(messages) = 1
    /\ messages[1].text \in { "Select at least one export format.",
                              "Please select at least one format to download." }

(***************************************************************************)
(* C11                                                                     *)
(***************************************************************************)
\* the files that deliver a format
FilesOf(f) ==
    CASE f = "CSV" -> {"coordinates.csv"}
      [] f = "KML" -> {"coordinates.kml"}
      [] f = "SHP" -> {"coordinates.shp", "coordinates.shx", "coordinates.dbf", "coordinates.prj"}

\* a step that exports several selected formats of which exactly one fails
ExportWithOneFailure ==
    /\ D_Finish \/ W_DownloadClicked
    /\ coordinates # <<>>
    /\ Cardinality(formats) > 1
    /\ Cardinality(formats \cap failing) = 1

\* C11: export fan-out isolation.  When several formats are selected and the
\* serializer of one of them fails, every other selected format is still
\* serialized and delivered, and the failure is reported.
C11_ExportFanOutIsolation ==
    [][ ExportWithOneFailure =>
          /\ \A f \in formats \ failing :
                /\ \E k \in DOMAIN sercalls' : sercalls'[k] = f
                /\ FilesOf(f) \subseteq DOMAIN outputs'.files
          /\ \E k \in DOMAIN messages' : messages'[k].level \in {"error", "exception"} ]_vars

(***************************************************************************)
(* C12                                                                     *)
(***************************************************************************)
\* latitude within [-90, 90] and longitude within [-180, 180]
InRange(lat, lon) ==
    /\ -90 * Scale <= lat /\ lat <= 90 * Scale
    /\ -180 * Scale <= lon /\ lon <= 180 * Scale

\* C12: range invariant.  Every Coordinate held in the CoordinateSet has its
\* latitude within [-90, 90] and its longitude within [-180, 180], whatever
\* GPS block the file carried.
C12_RangeInvariant ==
    \A k \in DOMAIN coordinates : InRange(coordinates[k][2], coordinates[k][3])

(***************************************************************************)
(* C13                                                                     *)
(***************************************************************************)
\* a complete Coordinate of the file under the loop: its name, a latitude and
\* a longitude
CompleteEntry(e) ==
    /\ Len(e) >= 3
    /\ e[1] = batch[i].name
    /\ e[2] \in Int /\ e[3] \in Int

\* the next CoordinateSet is this one or this one with one complete
\* Coordinate appended
SameOrOneAppended ==
    \/ coordinates' = coordinates
    \/ /\ Len(coordinates') = Len(coordinates) + 1
       /\ SubSeq(coordinates', 1, Len(coordinates)) = coordinates
       /\ CompleteEntry(coordinates'[Len(coordinates')])

\* C13: lifecycle of the CoordinateSet over any sequence of extract and export
\* operations.  It is empty at the start of each batch; within a batch each
\* step leaves it unchanged or appends one complete Coordinate; between the
\* end of a batch and the start of the next no operation changes it, and no
\* step that calls the serializers changes it.
C13_CoordinateSetLifecycle ==
    [][ /\ (pc # "loop" /\ pc' = "loop") => coordinates' = <<>>
        /\ pc = "loop" => SameOrOneAppended
        /\ (pc # "loop" /\ pc' # "loop") => coordinates' = coordinates
        /\ (D_Finish \/ W_DownloadClicked) => coordinates' = coordinates ]_vars

\* a second batch has just started, emptied, after a batch whose entries were
\* serialized to the output folder
C13_Witness ==
    /\ pc = "loop" /\ i = 1 /\ coordinates = <<>>
    /\ "coordinates.csv" \in DOMAIN outputs.files

(***************************************************************************)
(* C14                                                                     *)
(***************************************************************************)
\* the progress value p is at least the progress value q
AtLeast(p, q) == p[1] * q[2] >= q[1] * p[2]

\* C14: progress of the web extraction loop.  The progress value never
\* decreases during a batch; after the item at 0-based position i - 1 has been
\* handled, whether accepted, skipped for its extension or failed, it equals
\* i / total; and when the loop reports 'Extraction complete!' it equals 1.
C14_ProgressTracksItems ==
    [][ /\ W_LoopStep => /\ AtLeast(progress', progress)
                         /\ progress'[1] * Len(batch) = i * progress'[2]
        /\ W_Finish => progress'[1] = progress'[2] ]_vars

====
